---- MODULE Spec2Model ----
(***************************************************************************)
(* Malaysia EV Charging Tracker (src/app.py): a Streamlit script that      *)
(* keeps charging sessions in one Google Sheets worksheet.                 *)
(*                                                                         *)
(* Every user interaction re-executes the script top to bottom for that    *)
(* browser session: load_data() reads the whole worksheet, the sidebar     *)
(* filter narrows it, and the handler of the pressed button (if any) runs. *)
(* The only I/O on the worksheet is conn.read (whole sheet) and            *)
(* conn.update (whole sheet); a script run is split here exactly at these  *)
(* calls, because other browser sessions can act between them.             *)
(*                                                                         *)
(* Units.  Numbers are kept as integers in the step of their form widget:  *)
(* kWh in tenths (step 0.1), Total Cost in cents (step 0.01), Cost_per_kWh *)
(* in thousandths (the code rounds to 3 decimals), coordinates in whole    *)
(* degrees.  A Timestamp/date is the integer yyyymmdd.                     *)
(***************************************************************************)
EXTENDS Integers, Sequences, FiniteSets, TLC

(***************************************************************************)
(* Cells of a DataFrame / worksheet.                                       *)
(***************************************************************************)
\* pd.NA / NaN / NaT / an empty worksheet cell
NA == [t |-> "na", n |-> 0, s |-> ""]
\* a numeric cell
Num(x) == [t |-> "num", n |-> x, s |-> ""]
\* a text cell
Str(x) == [t |-> "str", n |-> 0, s |-> x]
\* a pandas Timestamp / datetime.date cell
Ts(d) == [t |-> "ts", n |-> d, s |-> ""]

\* '%Y-%m-%d' text of the dates of the model
IsoDate == (20240115 :> "2024-01-15") @@ (20240203 :> "2024-02-03")
\* str(Period("M")) of the months of the model
PeriodText == (202401 :> "2024-01") @@ (202402 :> "2024-02")
\* Timestamp.day_name() of the dates of the model
DayName == (20240115 :> "Monday") @@ (20240203 :> "Saturday")
\* str.strip() of the texts typed into the form
StripText == ("" :> "") @@ (" " :> "") @@ ("Mall A" :> "Mall A")

\* pd.to_datetime(cell, errors="coerce"): text that is no date becomes NaT
to_datetime(c) ==
  IF c.t = "ts" THEN c
  ELSE IF c.t = "str" /\ \E d \in DOMAIN IsoDate : IsoDate[d] = c.s
       THEN Ts(CHOOSE d \in DOMAIN IsoDate : IsoDate[d] = c.s)
       ELSE NA

\* Series.dt.strftime('%Y-%m-%d'): NaT stays missing
strftime(c) == IF c.t = "ts" THEN Str(IsoDate[c.n]) ELSE NA

\* Series.dt.to_period("M").astype(str): the period of NaT prints as "NaT"
to_period_str(c) == IF c.t = "ts" THEN Str(PeriodText[c.n \div 100]) ELSE Str("NaT")

\* Series.dt.day_name()
day_name(c) == IF c.t = "ts" THEN Str(DayName[c.n]) ELSE NA

\* pd.to_numeric(cell, errors="coerce"): what is no number becomes NaN
to_numeric(c) == IF c.t = "num" THEN c ELSE NA

\* Series.fillna(0.0)
fillna0(c) == IF c = NA THEN Num(0) ELSE c

(***************************************************************************)
(* Python floats.  total_cost and kwh_val are IEEE 754 doubles, and line   *)
(* 197 divides and rounds them as doubles: the quotient of the two doubles *)
(* nearest to the typed decimals is rounded to a double, and round(x, 3)   *)
(* rounds the exact value of that double.  A double is the record          *)
(* [m, e] of value m * 2^e with 2^52 <= m < 2^53 (m = 0 for 0.0); m and    *)
(* the intermediate values are wider than TLC's integers and are kept as   *)
(* Limbs digits in base Radix, lowest first.                               *)
(***************************************************************************)
Radix == 32768
Limbs == 5
\* bits of the significand of a double
MantissaBits == 53

\* the wide natural of an integer n >= 0
Big(n) ==
  [i \in 1..Limbs |->
     CASE i = 1 -> n % Radix
       [] i = 2 -> (n \div Radix) % Radix
       [] i = 3 -> n \div (Radix * Radix)
       [] OTHER -> 0]

\* the integer of a wide natural below 2^31
ToInt(x) == x[1] + Radix * x[2] + Radix * Radix * x[3]

\* x * k + c for small k and c
RECURSIVE MulAdd(_, _, _)
MulAdd(x, k, c) ==
  IF x = <<>> THEN <<>>
  ELSE <<(Head(x) * k + c) % Radix>> \o MulAdd(Tail(x), k, (Head(x) * k + c) \div Radix)

\* x - y - borrow, for x >= y + borrow
RECURSIVE Minus(_, _, _)
Minus(x, y, borrow) ==
  IF x = <<>> THEN <<>>
  ELSE IF Head(x) - Head(y) - borrow < 0
       THEN <<Head(x) - Head(y) - borrow + Radix>> \o Minus(Tail(x), Tail(y), 1)
       ELSE <<Head(x) - Head(y) - borrow>> \o Minus(Tail(x), Tail(y), 0)

\* -1, 0, 1 as x is below, equal to, above y
RECURSIVE Cmp(_, _)
Cmp(x, y) ==
  IF x = <<>> THEN 0
  ELSE IF x[Len(x)] > y[Len(x)] THEN 1
  ELSE IF x[Len(x)] < y[Len(x)] THEN -1
  ELSE Cmp(SubSeq(x, 1, Len(x) - 1), SubSeq(y, 1, Len(x) - 1))

\* x * 2^s, a limb at a time
RECURSIVE ShiftLeft(_, _)
ShiftLeft(x, s) ==
  IF s < 15 THEN MulAdd(x, 2 ^ s, 0) ELSE ShiftLeft(MulAdd(x, Radix, 0), s - 15)

\* x \div 2^s, a limb at a time
RECURSIVE ShiftRight(_, _)
ShiftRight(x, s) ==
  IF s < 15
  THEN [i \in DOMAIN x |->
          x[i] \div (2 ^ s) + (IF i < Len(x) THEN (x[i + 1] % (2 ^ s)) * 2 ^ (15 - s) ELSE 0)]
  ELSE ShiftRight(Tail(x) \o <<0>>, s - 15)

\* n / d scaled by powers of two into [1, 2), keeping the value n / d * 2^e:
\* shifts of k binary places while they fit, then of half as many
RECURSIVE Normalise(_, _, _, _)
Normalise(n, d, e, k) ==
  IF k = 0 THEN [n |-> n, d |-> d, e |-> e]
  ELSE IF Cmp(n, ShiftLeft(d, k)) >= 0 THEN Normalise(n, ShiftLeft(d, k), e + k, k)
  ELSE IF Cmp(ShiftLeft(n, k), ShiftLeft(d, 1)) < 0 THEN Normalise(ShiftLeft(n, k), d, e - k, k)
  ELSE Normalise(n, d, e, k \div 2)

\* one more binary digit of the quotient: q.m the digits so far, q.r < 2d
\* twice the remainder
DivStep(q, d) ==
  IF Cmp(q.r, d) >= 0
  THEN [m |-> MulAdd(q.m, 2, 1), r |-> ShiftLeft(Minus(q.r, d, 0), 1)]
  ELSE [m |-> ShiftLeft(q.m, 1), r |-> ShiftLeft(q.r, 1)]

\* `bits` more binary digits of the quotient, half of them at a time; after a
\* remainder of zero the digits are zeros
RECURSIVE LongDiv(_, _, _)
LongDiv(q, d, bits) ==
  IF bits = 1 THEN DivStep(q, d)
  ELSE LET half == LongDiv(q, d, bits \div 2)
       IN  IF half.r = Big(0)
           THEN [m |-> ShiftLeft(half.m, bits - bits \div 2), r |-> half.r]
           ELSE LongDiv(half, d, bits - bits \div 2)

\* the double nearest to n / d * 2^e (ties to even), d > 0
nearest_double(n, d, e) ==
  IF n = Big(0) THEN [m |-> Big(0), e |-> 0]
  ELSE LET s == Normalise(n, d, e, 8)
           q == LongDiv([m |-> Big(0), r |-> s.n], s.d, MantissaBits)
           up == Cmp(q.r, s.d) > 0 \/ (Cmp(q.r, s.d) = 0 /\ q.m[1] % 2 = 1)
           m == IF up THEN MulAdd(q.m, 1, 1) ELSE q.m
       IN  IF m = ShiftLeft(Big(1), MantissaBits)
           THEN [m |-> ShiftLeft(Big(1), MantissaBits - 1), e |-> s.e - MantissaBits + 2]
           ELSE [m |-> m, e |-> s.e - MantissaBits + 1]

\* the float a number_input returns for the decimal n / d the user typed
float_of(n, d) == nearest_double(Big(n), Big(d), 0)

\* x / y of two floats, y # 0.0
truediv(x, y) == nearest_double(x.m, y.m, x.e - y.e)

\* round(x, 3) in thousandths, for a double 0 <= x < 2^52 (x.e <= 0): the exact
\* value of x, times 1000, to the nearest integer, ties to even.  Below 2^-12
\* (x.e < -64) that is 0.
round3(x) ==
  IF x.e < -64 THEN 0
  ELSE LET n == MulAdd(x.m, 1000, 0)
           q == ShiftRight(n, -x.e)
           twice_rest == ShiftLeft(Minus(n, ShiftLeft(q, -x.e), 0), 1)
           c == Cmp(twice_rest, ShiftLeft(Big(1), -x.e))
       IN  IF c > 0 \/ (c = 0 /\ ToInt(q) % 2 = 1) THEN ToInt(q) + 1 ELSE ToInt(q)

\* round(total_cost / kwh_val, 3) if kwh_val > 0 else 0; cents and tenths in,
\* thousandths out
cost_per_kwh(total_cost, kwh_val) ==
  IF kwh_val > 0 THEN round3(truediv(float_of(total_cost, 100), float_of(kwh_val, 10)))
  ELSE 0

(***************************************************************************)
(* DataFrames: an ordered list of column names and a list of rows, each    *)
(* row a function from the column names to cells.                          *)
(***************************************************************************)
EXPECTED_COLUMNS ==
  <<"Date", "Provider", "Location", "Latitude", "Longitude", "Type", "kWh",
    "Total Cost", "Cost_per_kWh", "Month">>

ColSet(cols) == {cols[i] : i \in DOMAIN cols}

\* pd.DataFrame(columns=cols)
EmptyFrame(cols) == [columns |-> cols, rows |-> <<>>]

\* DataFrame.empty
IsEmpty(f) == Len(f.rows) = 0 \/ Len(f.columns) = 0

\* DataFrame.reindex(columns=cols): keeps cols in that order, NaN where missing
Reindex(f, cols) ==
  [columns |-> cols,
   rows |-> [i \in DOMAIN f.rows |->
               [c \in ColSet(cols) |->
                  IF c \in DOMAIN f.rows[i] THEN f.rows[i][c] ELSE NA]]]

\* whether frame[cols] raises KeyError (a label that is no column)
KeyError(f, cols) == ~(ColSet(cols) \subseteq ColSet(f.columns))

\* frame[cols] when it does not raise
Select(f, cols) ==
  [columns |-> cols,
   rows |-> [i \in DOMAIN f.rows |-> [c \in ColSet(cols) |-> f.rows[i][c]]]]

\* frame[col] = series, a cell for every row
Assign(f, col, series) ==
  [columns |-> IF col \in ColSet(f.columns) THEN f.columns ELSE Append(f.columns, col),
   rows |-> [i \in DOMAIN f.rows |->
               [c \in ColSet(f.columns) \cup {col} |->
                  IF c = col THEN series[i] ELSE f.rows[i][c]]]]

\* DataFrame.dropna(subset=[col])
DropNa(f, col) ==
  [columns |-> f.columns, rows |-> SelectSeq(f.rows, LAMBDA r : r[col] # NA)]

\* the columns of b that a lacks, in b's order
RECURSIVE NewColumns(_, _)
NewColumns(a, b) ==
  IF b = <<>> THEN <<>>
  ELSE IF Head(b) \in ColSet(a) THEN NewColumns(a, Tail(b))
       ELSE <<Head(b)>> \o NewColumns(a, Tail(b))

\* pd.concat([a, b], ignore_index=True): union of the columns, NaN where missing
Concat(a, b) ==
  LET cols == a.columns \o NewColumns(a.columns, b.columns)
  IN  [columns |-> cols, rows |-> Reindex(a, cols).rows \o Reindex(b, cols).rows]

(***************************************************************************)
(* load_data (src/app.py 50-88).                                           *)
(***************************************************************************)
\* cols_to_use: EXPECTED_COLUMNS + ["Day"], duplicates removed (there are none)
cols_to_use == EXPECTED_COLUMNS \o <<"Day">>

\* the columns load_data indexes without first creating them
IndexedColumns == <<"Date", "kWh", "Total Cost", "Cost_per_kWh">>

\* a cell of a worksheet row, NaN for a column the worksheet lacks (steps 1
\* and 3: the coordinate columns are created, reindex adds the others)
cell(r, c) == IF c \in DOMAIN r THEN r[c] ELSE NA

\* steps 1 to 3 of load_data on one row of the worksheet
process_row(r) ==
  LET date == to_datetime(r["Date"])
  IN  [c \in ColSet(cols_to_use) |->
         CASE c = "Date" -> date
           [] c = "Month" -> to_period_str(date)
           [] c = "Day" -> day_name(date)
           [] c \in {"Latitude", "Longitude"} -> to_numeric(cell(r, c))
           [] c \in {"kWh", "Total Cost", "Cost_per_kWh"} -> fillna0(to_numeric(r[c]))
           [] OTHER -> cell(r, c)]

\* steps 1 to 3 of load_data on a worksheet that is not empty
process(raw) ==
  DropNa([columns |-> cols_to_use,
          rows |-> [k \in DOMAIN raw.rows |-> process_row(raw.rows[k])]], "Date")

\* what the except branch returns (after st.error)
load_failed == [df |-> EmptyFrame(EXPECTED_COLUMNS), error |-> TRUE]

\* load_data(): raw is the worksheet, read_raises whether conn.read raised.
\* df is the returned frame, error whether st.error was shown.
load_data(raw, read_raises) ==
  IF read_raises THEN load_failed
  ELSE IF IsEmpty(raw) THEN [df |-> EmptyFrame(EXPECTED_COLUMNS), error |-> FALSE]
  ELSE IF KeyError(raw, IndexedColumns) THEN load_failed
  ELSE [df |-> process(raw), error |-> FALSE]

(***************************************************************************)
(* Sidebar filter (src/app.py 109-120).                                    *)
(***************************************************************************)
\* unique_months = df["Month"].dropna().unique(), as a set
months(f) ==
  {f.rows[i]["Month"].s : i \in {k \in DOMAIN f.rows : f.rows[k]["Month"] # NA}}

\* the periods in texts, newest first: the texts "yyyy-mm" sort as their periods
RECURSIVE SortedReverse(_)
SortedReverse(periods) ==
  IF periods = {} THEN <<>>
  ELSE LET newest == CHOOSE p \in periods : \A o \in periods : o <= p
       IN  <<PeriodText[newest]>> \o SortedReverse(periods \ {newest})

\* ["All"] + sorted(unique_months, reverse=True), the options of the selectbox
options(f) ==
  <<"All">> \o SortedReverse({p \in DOMAIN PeriodText : PeriodText[p] \in months(f)})

\* whether the Month selectbox is rendered in this run
has_selectbox(f) == ~IsEmpty(f) /\ "Month" \in ColSet(f.columns)

\* the selectbox's value in a run on frame f, after a run on frame previous in
\* which the value was choice.  The selectbox has no key, so it is the same
\* widget only while its label and options are the same: with other options,
\* or when the previous run rendered none, it starts at its first option.
selectbox(f, choice, previous) ==
  IF has_selectbox(f) /\ has_selectbox(previous) /\ options(f) = options(previous)
  THEN choice
  ELSE "All"

\* filtered_df
filter_month(f, selected) ==
  IF has_selectbox(f) /\ selected # "All"
  THEN [columns |-> f.columns,
        rows |-> SelectSeq(f.rows, LAMBDA r : r["Month"] = Str(selected))]
  ELSE f

(***************************************************************************)
(* Overview metrics (src/app.py 235-244).                                  *)
(***************************************************************************)
\* Series.sum() of a numeric column (NaN skipped)
RECURSIVE SumCol(_, _)
SumCol(rows, col) ==
  IF rows = <<>> THEN 0
  ELSE (IF Head(rows)[col].t = "num" THEN Head(rows)[col].n ELSE 0) + SumCol(Tail(rows), col)

\* Series.count(): the cells that are not NaN
CountCol(rows, col) == Cardinality({i \in DOMAIN rows : rows[i][col] # NA})

\* avg_cost = filtered_df['Cost_per_kWh'].mean(), as the fraction num/den in
\* thousandths of MYR per kWh; NaN (den = 0) is displayed as 0.00
avg_cost(f) == [num |-> SumCol(f.rows, "Cost_per_kWh"), den |-> CountCol(f.rows, "Cost_per_kWh")]

\* the four metrics; nothing is shown for an empty filtered_df
overview(f) ==
  IF IsEmpty(f) THEN [shown |-> FALSE, total_spent |-> 0, avg |-> [num |-> 0, den |-> 0],
                      energy |-> 0, sessions |-> 0]
  ELSE [shown |-> TRUE,
        total_spent |-> SumCol(f.rows, "Total Cost"),
        avg |-> avg_cost(f),
        energy |-> SumCol(f.rows, "kWh"),
        sessions |-> Len(f.rows)]

(***************************************************************************)
(* Geocoding (src/app.py 95-104, 177-194).                                 *)
(***************************************************************************)
\* what the Nominatim call does: raises, finds nothing, or finds a place
GeoOutcomes ==
  {[kind |-> "raise", lat |-> 0, lon |-> 0], [kind |-> "none", lat |-> 0, lon |-> 0],
   [kind |-> "found", lat |-> 3, lon |-> 101], [kind |-> "found", lat |-> 0, lon |-> 101]}

\* get_coordinates(location_name): (None, None) unless a place was found
get_coordinates(outcome) ==
  IF outcome.kind = "found" THEN [lat |-> Num(outcome.lat), lon |-> Num(outcome.lon)]
  ELSE [lat |-> NA, lon |-> NA]

\* Python truth of found_lat: None and 0.0 are false
truthy(c) == c.t = "num" /\ c.n # 0

\* whether the handler calls get_coordinates
needs_lookup(lat_val, lon_val, location_name) ==
  (lat_val = 0 \/ lon_val = 0) /\ StripText[location_name] # ""

\* a slip in the not-found branch: only final_lat is cleared
not_found_lat_only(lat_val, lon_val) == [lat |-> NA, lon |-> Num(lon_val)]

\* final_lat, final_lon when the lookup found nothing (lines 189-191)
not_found(lat_val, lon_val) == [lat |-> NA, lon |-> NA]

\* final_lat, final_lon of the geocoding step
geocoding(lat_val, lon_val, location_name, outcome) ==
  IF needs_lookup(lat_val, lon_val, location_name)
  THEN LET found == get_coordinates(outcome)
       IN  IF truthy(found.lat) THEN found ELSE not_found(lat_val, lon_val)
  ELSE IF lat_val = 0 /\ lon_val = 0 THEN [lat |-> NA, lon |-> NA]
       ELSE [lat |-> Num(lat_val), lon |-> Num(lon_val)]

(***************************************************************************)
(* Log Session: the record and the frame written (src/app.py 171-225).     *)
(***************************************************************************)
\* provider
provider_of(form) ==
  IF form.selected_provider = "Other" THEN StripText[form.other_provider]
  ELSE form.selected_provider

\* new_data: the one-row frame of the submitted session
new_data(form, coords) ==
  [columns |-> EXPECTED_COLUMNS,
   rows |-> << [c \in ColSet(EXPECTED_COLUMNS) |->
      CASE c = "Date" -> Ts(form.date_val)
        [] c = "Provider" -> Str(provider_of(form))
        [] c = "Location" -> Str(StripText[form.location_name])
        [] c = "Latitude" -> coords.lat
        [] c = "Longitude" -> coords.lon
        [] c = "Type" -> Str(form.output_type)
        [] c = "kWh" -> Num(form.kwh_val)
        [] c = "Total Cost" -> Num(form.total_cost)
        [] c = "Cost_per_kWh" -> Num(cost_per_kwh(form.total_cost, form.kwh_val))
        [] c = "Month" -> to_period_str(Ts(form.date_val))] >>]

\* a slip in the append: built on the filtered view
append_base_filtered(full, filtered) == filtered

\* what the worksheet holds of a written frame: NaN and empty text are both an
\* empty cell, which conn.read gives back as NaN
worksheet_cells(f) ==
  [columns |-> f.columns,
   rows |-> [k \in DOMAIN f.rows |->
               [c \in DOMAIN f.rows[k] |->
                  IF f.rows[k][c] = Str("") THEN NA ELSE f.rows[k][c]]]]

\* save_df["Date"] = pd.to_datetime(save_df["Date"]).dt.strftime('%Y-%m-%d')
dates_as_text(f) ==
  Assign(f, "Date", [k \in DOMAIN f.rows |-> strftime(to_datetime(f.rows[k]["Date"]))])

\* the dataset the append is built on (line 217: df, the full loaded dataset)
append_base(full, filtered) == full

\* save_df of the append: concat, fixed columns, dates as text
append_frame(full, filtered, form, coords) ==
  LET updated_df == Concat(append_base(full, filtered), new_data(form, coords))
  IN  dates_as_text(Select(updated_df, EXPECTED_COLUMNS))

(***************************************************************************)
(* Data (Edit) tab (src/app.py 326-356).                                   *)
(***************************************************************************)
display_cols ==
  <<"Date", "Provider", "Location", "Latitude", "Longitude", "Type", "kWh",
    "Total Cost", "Month">>

\* existing_cols = [c for c in display_cols if c in df.columns]
existing_cols(f) == SelectSeq(display_cols, LAMBDA c : c \in ColSet(f.columns))

\* insert a row into rows sorted by Date, newest first, after its equals
RECURSIVE InsertByDate(_, _)
InsertByDate(r, sorted) ==
  IF sorted = <<>> THEN <<r>>
  ELSE IF Head(sorted)["Date"].n >= r["Date"].n
       THEN <<Head(sorted)>> \o InsertByDate(r, Tail(sorted))
       ELSE <<r>> \o sorted

\* df.sort_values("Date", ascending=False), rows of one date in their order
RECURSIVE SortByDateDesc(_)
SortByDateDesc(rows) ==
  IF rows = <<>> THEN <<>>
  ELSE InsertByDate(rows[Len(rows)], SortByDateDesc(SubSeq(rows, 1, Len(rows) - 1)))

\* the frame handed to st.data_editor
editor_frame(f) ==
  Select([columns |-> f.columns, rows |-> SortByDateDesc(f.rows)], existing_cols(f))

\* the rows with row k removed (k = 0: none)
RemoveRow(rows, k) ==
  [i \in 1..(Len(rows) - (IF k \in DOMAIN rows THEN 1 ELSE 0)) |->
     IF k \in DOMAIN rows /\ i >= k THEN rows[i + 1] ELSE rows[i]]

\* edited_df: the editor's frame after the user deleted row k (0: no edit)
edited_df(f, k) ==
  [columns |-> editor_frame(f).columns, rows |-> RemoveRow(editor_frame(f).rows, k)]

\* final_save_df of the editor save, when edited_df[EXPECTED_COLUMNS] does not raise
final_save_df(edited) == dates_as_text(Select(edited, EXPECTED_COLUMNS))

(***************************************************************************)
(* Bounds and input sets.                                                  *)
(***************************************************************************)
\* presses of "Save Session" in a behaviour
MaxSubmits == 2

\* browser sessions that may run the script
Sessions == {1, 2}

\* a worksheet in the older layout: no coordinates, and a column this program
\* never writes
LegacyColumns ==
  <<"Date", "Provider", "Location", "Type", "kWh", "Total Cost", "Cost_per_kWh", "Month",
    "Notes">>

AllColumns == EXPECTED_COLUMNS \o <<"Notes">>

Row(date, provider, location, lat, lon, type, kwh, cost, cpk, month, notes) ==
  [c \in ColSet(AllColumns) |->
     CASE c = "Date" -> date [] c = "Provider" -> provider [] c = "Location" -> location
       [] c = "Latitude" -> lat [] c = "Longitude" -> lon [] c = "Type" -> type
       [] c = "kWh" -> kwh [] c = "Total Cost" -> cost [] c = "Cost_per_kWh" -> cpk
       [] c = "Month" -> month [] c = "Notes" -> notes]

\* a row as this program writes it
WrittenRow ==
  Row(Str("2024-01-15"), Str("Gentari"), Str("Mall A"), Num(3), Num(101), Str("DC"),
      Num(100), Num(1000), Num(1000), Str("2024-01"), NA)
\* a row edited by hand: stale Month and Cost_per_kWh, text in a coordinate
EditedRow ==
  Row(Str("2024-02-03"), Str("Home"), NA, Str("n/a"), NA, Str("AC"),
      Num(300), Num(9000), Num(9999), Str("2024-01"), Str("edited"))
\* a row whose Date is no date
UndatedRow ==
  Row(Str("n/a"), Str("Home"), NA, NA, NA, Str("AC"),
      Num(100), Str("n/a"), NA, NA, Str("no date"))

\* the rows the first run may find in the worksheet
InitRows ==
  {<<>>, <<WrittenRow>>, <<EditedRow>>, <<UndatedRow>>, <<WrittenRow, UndatedRow>>,
   <<EditedRow, WrittenRow>>, <<UndatedRow, WrittenRow, EditedRow>>}

\* the worksheets the first run may find
InitSheets ==
  {Select([columns |-> AllColumns, rows |-> rs], cols) :
     rs \in InitRows, cols \in {EXPECTED_COLUMNS, LegacyColumns}}

\* the Latitude and Longitude typed into the form (0, 0: left to auto-detect)
CoordInputs == {<<0, 0>>, <<3, 101>>, <<3, 0>>}

\* what the user may submit in the Log Session form
Forms ==
  {[selected_provider |-> p[1], other_provider |-> p[2], date_val |-> d,
    location_name |-> l, output_type |-> "DC", kwh_val |-> 200, total_cost |-> 3000,
    lat_val |-> c[1], lon_val |-> c[2]] :
     p \in {<<"Gentari", "">>, <<"Other", " ">>}, d \in {20240203},
     l \in {"", "Mall A"}, c \in CoordInputs}

\* form[s] while no submission is being handled
NoForm ==
  [selected_provider |-> "Gentari", other_provider |-> "", date_val |-> 20240115,
   location_name |-> "", output_type |-> "AC", kwh_val |-> 1, total_cost |-> 0,
   lat_val |-> 0, lon_val |-> 0]

\* the location names get_coordinates can be called with
LookupNames == {f.location_name : f \in {g \in Forms : StripText[g.location_name] # ""}}

\* (None, None)
NoCoords == [lat |-> NA, lon |-> NA]
\* geo[s] while no submission is being handled
NoGeo == [looked |-> FALSE, found |-> NoCoords, final |-> NoCoords]

\* st.toast survives the st.rerun() that follows it
Toasts == {"Saved to Google Sheets!", "Google Sheet updated!", "Found"}

(***************************************************************************)
(* State.                                                                  *)
(***************************************************************************)
VARIABLES
  active,          \* the browser sessions of this behaviour
  sheet,           \* worksheet "Sheet1" of the Google Sheet
  pc,              \* per session: where its script run stands
  form,            \* per session: the submitted Log Session form
  dropped,         \* per session: the row deleted in the data editor (0: none)
  df,              \* per session: df = load_data()
  filtered_df,     \* per session: filtered_df
  selected_month,  \* per session: value of the Month selectbox
  messages,        \* per session: st.error / st.warning / st.toast shown
  geo,             \* per session: found_lat/found_lon and final_lat/final_lon
  lookups,         \* per location name: geocoder calls issued by this process
  submits          \* presses of "Save Session" so far

vars ==
  <<active, sheet, pc, form, dropped, df, filtered_df, selected_month, messages,
    geo, lookups, submits>>

InitWith(users, sheets) ==
  /\ active = users
  /\ sheet \in sheets
  /\ pc = [s \in Sessions |-> IF s \in users THEN "rerun" ELSE "idle"]
  /\ form = [s \in Sessions |-> NoForm]
  /\ dropped = [s \in Sessions |-> 0]
  /\ df = [s \in Sessions |-> EmptyFrame(EXPECTED_COLUMNS)]
  /\ filtered_df = [s \in Sessions |-> EmptyFrame(EXPECTED_COLUMNS)]
  /\ selected_month = [s \in Sessions |-> "All"]
  /\ messages = [s \in Sessions |-> {}]
  /\ geo = [s \in Sessions |-> NoGeo]
  /\ lookups = [n \in LookupNames |-> 0]
  /\ submits = 0

\* one browser session opens the app
Init == InitWith({1}, InitSheets)

\* two browser sessions open the app on the same worksheet
InitTwo ==
  InitWith(Sessions, {Select([columns |-> AllColumns, rows |-> rs], EXPECTED_COLUMNS) :
                        rs \in {<<>>, <<WrittenRow>>}})

(***************************************************************************)
(* The script, top to handler: lines 46-120.                               *)
(***************************************************************************)
\* df = load_data(); the sidebar; filtered_df.  choice is the selectbox's
\* value on the page of the previous run (whose frame is df[s]), shown the
\* messages that stay on the page.
StartRun(s, read_raises, choice, shown) ==
  LET r == load_data(sheet, read_raises)
      selected == selectbox(r.df, choice, df[s])
  IN  /\ df' = [df EXCEPT ![s] = r.df]
      /\ selected_month' = [selected_month EXCEPT ![s] = selected]
      /\ filtered_df' = [filtered_df EXCEPT ![s] = filter_month(r.df, selected)]
      /\ messages' = [messages EXCEPT ![s] =
           shown \cup (IF r.error THEN {"Error loading data from Google Sheets"} ELSE {})]

\* a run with no button pressed: the first run, or the st.rerun() after a save
ScriptRun(s) ==
  /\ s \in active
  /\ pc[s] = "rerun"
  /\ \E read_raises \in BOOLEAN :
       StartRun(s, read_raises, selected_month[s], messages[s] \cap Toasts)
  /\ pc' = [pc EXCEPT ![s] = "idle"]
  /\ UNCHANGED <<active, sheet, form, dropped, geo, lookups, submits>>

\* the user changes a widget that has no handler (the Provider selectbox, the
\* Custom Provider text, a cell of the data editor): the script runs with no
\* button pressed
WidgetRun(s) ==
  /\ s \in active
  /\ pc[s] = "idle"
  /\ \E read_raises \in BOOLEAN : StartRun(s, read_raises, selected_month[s], {})
  /\ UNCHANGED <<active, sheet, pc, form, dropped, geo, lookups, submits>>

\* the user picks another month in the sidebar
SelectMonth(s, m) ==
  /\ s \in active
  /\ pc[s] = "idle"
  /\ has_selectbox(df[s])
  /\ m \in {"All"} \cup months(df[s])
  /\ m # selected_month[s]
  /\ \E read_raises \in BOOLEAN : StartRun(s, read_raises, m, {})
  /\ UNCHANGED <<active, sheet, pc, form, dropped, geo, lookups, submits>>

\* the user presses "Save Session": the script runs up to the form's handler
SaveSession(s, f) ==
  /\ s \in active
  /\ pc[s] = "idle"
  /\ submits < MaxSubmits
  /\ \E read_raises \in BOOLEAN : StartRun(s, read_raises, selected_month[s], {})
  /\ pc' = [pc EXCEPT ![s] = "log_form"]
  /\ form' = [form EXCEPT ![s] = f]
  /\ submits' = submits + 1
  /\ UNCHANGED <<active, sheet, dropped, geo, lookups>>

\* conn.update(worksheet="Sheet1", data=frame) by session s, then the toast
\* and st.rerun(); or the except branch with its st.error
Update(s, frame, update_raises, toast, failure, shown) ==
  IF update_raises
  THEN /\ sheet' = sheet
       /\ messages' = [messages EXCEPT ![s] = shown \cup {failure}]
       /\ pc' = [pc EXCEPT ![s] = "idle"]
  ELSE /\ sheet' = worksheet_cells(frame)
       /\ messages' = [messages EXCEPT ![s] = shown \cup {toast}]
       /\ pc' = [pc EXCEPT ![s] = "rerun"]

\* "if submitted:" up to the geocoding step (lines 171-194): the provider
\* check and the one call of get_coordinates, whose outcome is the geocoder's
LogFormGeocode(s) ==
  /\ s \in active
  /\ pc[s] = "log_form"
  /\ IF provider_of(form[s]) = ""
     THEN /\ messages' = [messages EXCEPT ![s] = @ \cup {"Please specify provider name."}]
          /\ pc' = [pc EXCEPT ![s] = "idle"]
          /\ form' = [form EXCEPT ![s] = NoForm]
          /\ UNCHANGED <<geo, lookups>>
     ELSE \E outcome \in GeoOutcomes :
            LET f == form[s]
                looked == needs_lookup(f.lat_val, f.lon_val, f.location_name)
                final == geocoding(f.lat_val, f.lon_val, f.location_name, outcome)
            IN  /\ geo' = [geo EXCEPT ![s] =
                     [looked |-> looked,
                      found |-> IF looked THEN get_coordinates(outcome) ELSE NoCoords,
                      final |-> final]]
                /\ lookups' = IF looked
                              THEN [lookups EXCEPT ![f.location_name] = @ + 1]
                              ELSE lookups
                /\ messages' = [messages EXCEPT ![s] = @ \cup
                     (IF ~looked THEN {}
                      ELSE IF final.lat # NA THEN {"Found"}
                      ELSE {"Coordinates not found. Saved without them."})]
                /\ pc' = [pc EXCEPT ![s] = "save"]
                /\ form' = form
  /\ UNCHANGED <<active, sheet, dropped, df, filtered_df, selected_month, submits>>

\* the rest of the handler (lines 196-230): build the record, concat, update
LogFormSave(s) ==
  /\ s \in active
  /\ pc[s] = "save"
  /\ \E update_raises \in BOOLEAN :
       Update(s, append_frame(df[s], filtered_df[s], form[s], geo[s].final), update_raises,
              "Saved to Google Sheets!", "Failed to save to Google Sheets", messages[s])
  /\ form' = [form EXCEPT ![s] = NoForm]
  /\ geo' = [geo EXCEPT ![s] = NoGeo]
  /\ UNCHANGED <<active, dropped, df, filtered_df, selected_month, lookups, submits>>

\* the user deletes row k in the data editor (k = 0: edits nothing) and presses
\* "Save Changes to Google Sheet"; the button exists only while df is not empty
SaveChanges(s) ==
  /\ s \in active
  /\ pc[s] = "idle"
  /\ ~IsEmpty(df[s])
  /\ \E k \in 0..Len(df[s].rows), read_raises \in BOOLEAN :
       /\ StartRun(s, read_raises, selected_month[s], {})
       /\ IF IsEmpty(load_data(sheet, read_raises).df)
          THEN pc' = pc /\ dropped' = dropped
          ELSE pc' = [pc EXCEPT ![s] = "tab_data"] /\ dropped' = [dropped EXCEPT ![s] = k]
  /\ UNCHANGED <<active, sheet, form, geo, lookups, submits>>

\* the body of the "Save Changes to Google Sheet" button (lines 345-356)
TabDataHandler(s) ==
  /\ s \in active
  /\ pc[s] = "tab_data"
  /\ dropped' = [dropped EXCEPT ![s] = 0]
  /\ LET edited == edited_df(df[s], dropped[s])
     IN  IF KeyError(edited, EXPECTED_COLUMNS)
         THEN /\ messages' = [messages EXCEPT ![s] = @ \cup {"Error saving"}]
              /\ pc' = [pc EXCEPT ![s] = "idle"]
              /\ sheet' = sheet
         ELSE \E update_raises \in BOOLEAN :
                Update(s, final_save_df(edited), update_raises,
                       "Google Sheet updated!", "Error saving", messages[s])
  /\ UNCHANGED <<active, form, df, filtered_df, selected_month, geo, lookups, submits>>

Next ==
  \E s \in Sessions :
    \/ ScriptRun(s)
    \/ WidgetRun(s)
    \/ \E m \in DOMAIN PeriodText \cup {0} :
         SelectMonth(s, IF m = 0 THEN "All" ELSE PeriodText[m])
    \/ \E f \in Forms : SaveSession(s, f)
    \/ LogFormGeocode(s)
    \/ LogFormSave(s)
    \/ SaveChanges(s)
    \/ TabDataHandler(s)

Spec == Init /\ [][Next]_vars

\* with two sessions, the forms that leave the coordinates to the geocoder
TwoForms == {f \in Forms : f.lat_val = 0 /\ f.selected_provider = "Gentari"}

NextTwo ==
  \E s \in Sessions :
    \/ ScriptRun(s)
    \/ WidgetRun(s)
    \/ \E m \in DOMAIN PeriodText \cup {0} :
         SelectMonth(s, IF m = 0 THEN "All" ELSE PeriodText[m])
    \/ \E f \in TwoForms : SaveSession(s, f)
    \/ LogFormGeocode(s)
    \/ LogFormSave(s)
    \/ SaveChanges(s)
    \/ TabDataHandler(s)

SpecTwo == InitTwo /\ [][NextTwo]_vars

(***************************************************************************)
(* Properties.                                                             *)
(***************************************************************************)
\* the worksheet row that df row d is persisted as: the fixed columns, the
\* Date read back as the same day
SameRecord(w, d) ==
  \A c \in ColSet(EXPECTED_COLUMNS) :
    IF c = "Date" THEN to_datetime(w[c]) = d[c] ELSE w[c] = d[c]

\* the worksheet row a submitted form is persisted as
FormRecord(f, coords) == worksheet_cells(dates_as_text(new_data(f, coords))).rows[1]

\* session s completes a conn.update in this step
Appends(s) == pc[s] = "save" /\ pc'[s] = "rerun"
Replaces(s) == pc[s] = "tab_data" /\ pc'[s] = "rerun"

LoadError == "Error loading data from Google Sheets"

\* C1: after a successful "Save Session" the worksheet holds every record it
\* held before, unchanged (in the fixed columns) and in the same order,
\* followed by exactly the one new record.
C1_AppendAddsExactlyOne ==
  [][\A s \in active : Appends(s) =>
       /\ Len(sheet'.rows) = Len(sheet.rows) + 1
       /\ \A i \in DOMAIN sheet.rows :
            sheet'.rows[i] = Reindex(sheet, EXPECTED_COLUMNS).rows[i]
       /\ sheet'.rows[Len(sheet'.rows)] = FormRecord(form[s], geo[s].final)]_vars

\* C2: pressing "Save Changes to Google Sheet" without editing completes
\* successfully and leaves the stored rows (fixed columns) as they were.
C2_RoundTripStable ==
  [][\A s \in active : (pc[s] = "tab_data" /\ dropped[s] = 0 /\ pc'[s] # "tab_data") =>
       /\ "Google Sheet updated!" \in messages'[s]
       /\ Reindex(sheet', EXPECTED_COLUMNS).rows = Reindex(sheet, EXPECTED_COLUMNS).rows]_vars

\* C3: a change of the Month selection never changes the worksheet, and every
\* write is built from the full loaded dataset df, not from filtered_df: an
\* append writes every record of df in df's order followed by one more row, an
\* editor save without edits writes every record of df; so every record of df
\* outside the selected month is still in the worksheet after the write.
C3_FilterPurity ==
  [][\A s \in active :
       /\ selected_month'[s] # selected_month[s] => sheet' = sheet
       /\ Appends(s) =>
            /\ Len(sheet'.rows) = Len(df[s].rows) + 1
            /\ \A i \in DOMAIN df[s].rows : SameRecord(sheet'.rows[i], df[s].rows[i])
       /\ (Replaces(s) /\ dropped[s] = 0) =>
            \A i \in DOMAIN df[s].rows :
              \E j \in DOMAIN sheet'.rows : SameRecord(sheet'.rows[j], df[s].rows[i])
       /\ (Appends(s) \/ (Replaces(s) /\ dropped[s] = 0)) =>
            \A i \in DOMAIN df[s].rows :
              df[s].rows[i]["Month"] # Str(selected_month[s]) =>
                \E j \in DOMAIN sheet'.rows : SameRecord(sheet'.rows[j], df[s].rows[i])]_vars

\* C3 witness: an append was written while a month filter was active and df
\* held a record of another month, which is in the worksheet.
C3_Witness ==
  \E s \in active :
    /\ pc[s] = "rerun"
    /\ "Saved to Google Sheets!" \in messages[s]
    /\ selected_month[s] # "All"
    /\ Len(filtered_df[s].rows) < Len(df[s].rows)
    /\ Len(sheet.rows) = Len(df[s].rows) + 1
    /\ \E i \in DOMAIN df[s].rows :
         /\ df[s].rows[i]["Month"] # Str(selected_month[s])
         /\ SameRecord(sheet.rows[i], df[s].rows[i])

\* C4: the value load_data returns when the read failed differs from the
\* value it returns for a reachable worksheet that holds no records.
C4_FailedReadDistinct ==
  \A s \in active :
    LoadError \in messages[s] => df[s] # load_data(EmptyFrame(EXPECTED_COLUMNS), FALSE).df

\* C5: in a script run whose load_data failed to read the worksheet, no write
\* is issued: the worksheet stays as it was.
C5_FailedReadBlocksWrites ==
  [][\A s \in active :
       (LoadError \in messages[s] /\ pc[s] \in {"save", "tab_data"}) => sheet' = sheet]_vars

\* C6: for every session load_data returned, Month is the year-month of Date
\* and Cost_per_kWh is round(Total Cost / kWh, 3), 0 when kWh is 0, whatever
\* the worksheet held in those columns.
C6_DerivedRecomputed ==
  \A s \in active : \A i \in DOMAIN df[s].rows :
    LET r == df[s].rows[i]
    IN  /\ r["Month"] = to_period_str(r["Date"])
        /\ r["Cost_per_kWh"] = Num(cost_per_kwh(r["Total Cost"].n, r["kWh"].n))

\* every stored Cost_per_kWh of the frame is the rounded ratio of its row
RatesConsistent(f) ==
  \A i \in DOMAIN f.rows :
    f.rows[i]["Cost_per_kWh"] = Num(cost_per_kwh(f.rows[i]["Total Cost"].n, f.rows[i]["kWh"].n))

\* C7: the overview's average cost per kWh equals sum(Total Cost) / sum(kWh)
\* over the filtered sessions (in thousandths: 100 * cents / tenths), for every
\* non-empty filtered set with positive total energy.  Stated over the sets
\* whose stored Cost_per_kWh are the rounded ratios, so that a divergence is
\* one of the averaging rule and not of a stale stored value (C6).
C7_AverageIsSumRatio ==
  \A s \in active :
    LET o == overview(filtered_df[s])
    IN  (o.shown /\ o.energy > 0 /\ RatesConsistent(filtered_df[s])) =>
          o.avg.num * o.energy = 100 * o.total_spent * o.avg.den

\* C8: at most one outbound geocoder call is issued for a location name.
C8_LookupMemoized == \A n \in LookupNames : lookups[n] <= 1

\* C9: when a submission with a provider looks the location up and the lookup
\* fails (exception or no match), one call was made and none follows, the
\* handler goes on to the save, and the record handed to conn.update, which is
\* the worksheet's last row unless conn.update itself raised, is the submitted
\* session with Latitude and Longitude both absent.
C9_BestEffortEnrichment ==
  [][\A s \in active :
       LET f == form[s] IN
       /\ (pc[s] = "log_form" /\ pc'[s] # "log_form" /\ provider_of(f) # "") =>
            /\ pc'[s] = "save"
            /\ needs_lookup(f.lat_val, f.lon_val, f.location_name) =>
                 /\ geo'[s].looked
                 /\ lookups' = [lookups EXCEPT ![f.location_name] = @ + 1]
       /\ (pc[s] = "save" /\ pc'[s] # "save") => lookups' = lookups
       /\ (pc[s] = "save" /\ pc'[s] # "save" /\ geo[s].looked /\ geo[s].found.lat = NA) =>
            \/ /\ pc'[s] = "rerun"
               /\ Len(sheet'.rows) = Len(df[s].rows) + 1
               /\ sheet'.rows[Len(sheet'.rows)] = FormRecord(f, NoCoords)
            \/ /\ pc'[s] = "idle"
               /\ "Failed to save to Google Sheets" \in messages'[s]
               /\ sheet' = sheet]_vars

\* C9 witness: a submission whose lookup failed was saved, after one call,
\* with neither coordinate.
C9_Witness ==
  \E s \in active :
    /\ pc[s] = "rerun"
    /\ "Coordinates not found. Saved without them." \in messages[s]
    /\ "Saved to Google Sheets!" \in messages[s]
    /\ lookups["Mall A"] = 1
    /\ Len(sheet.rows) > 0
    /\ sheet.rows[Len(sheet.rows)]["Location"] = Str("Mall A")
    /\ sheet.rows[Len(sheet.rows)]["Latitude"] = NA
    /\ sheet.rows[Len(sheet.rows)]["Longitude"] = NA

\* session s is between its read of the worksheet and its conn.update
InFlight(s) == pc[s] \in {"log_form", "save", "tab_data"}

\* C10: at most one mutation is in flight: while a session is between its
\* load_data and its conn.update, and takes no step itself, no conn.update of
\* another session changes the worksheet.
C10_SingleWriter ==
  [][\A s \in active : (InFlight(s) /\ pc'[s] = pc[s]) => sheet' = sheet]_vars

====
